---- MODULE Spec2Model ----
(***************************************************************************)
(* Model of the arithmetic drill tool: exercise.py (number generator,      *)
(* exercise types, registry, generators, session, persistence) and the     *)
(* event handlers of exapp.py that drive a session.                        *)
(*                                                                         *)
(* Text is modelled as a sequence of chunks.  A chunk is one character     *)
(* ("0".."9", ",", "?", " ", "-", "+", "_", "a", "\n") or an opaque piece   *)
(* of literal text that contains none of those characters that the code    *)
(* inspects (a type tag, a date, " x ", " is Incorrect!").                 *)
(***************************************************************************)
EXTENDS Integers, Sequences, FiniteSets, TLC

\* ------------------------------------------------------------------ bounds
\* largest 2-digit operand a drill of the application draws
MaxOperand2 == 12
\* largest 1-digit operand a drill of the application draws
MaxOperand1 == 2
\* largest elapsed time (ms) the clock reports for one submission
MaxElapsed == 1
\* finish_an_exercise calls in one run of the application
MaxCount == 2
\* ExerciseUI instances (sessions) created in one run of the application
MaxSessions == 2
\* Completed messages waiting in the application's message queue when the
\* user presses a key
MaxQueue == 2
\* Start or Command messages waiting in the application's message queue
MaxStarts == 1
\* timer ticks delivered to one ExerciseUI
MaxTicks == 3
\* length of a replay history given to ReprExerciseGen
MaxHistory == 3
\* get_an_exercise calls made on one ReprExerciseGen
MaxCalls == 7
\* the largest duration (ticks) and count the start screen offers
MaxDrive == 2
\* midnights that pass during one run of the application
MaxDays == 1

\* ------------------------------------------------------------------ text
Digits == <<"0", "1", "2", "3", "4", "5", "6", "7", "8", "9">>

IsDigit(ch) == \E i \in 1..10 : Digits[i] = ch

DigitVal(ch) == (CHOOSE i \in 1..10 : Digits[i] = ch) - 1

\* str(n) for a natural number
RECURSIVE StrNat(_)
StrNat(n) == IF n < 10 THEN <<Digits[n + 1]>>
             ELSE StrNat(n \div 10) \o <<Digits[(n % 10) + 1]>>

\* str(n) / f"{n}" for an int
Str(n) == IF n < 0 THEN <<"-">> \o StrNat(0 - n) ELSE StrNat(n)

\* An optional value (Python's None, or the outcome of a call that may raise)
\* is a tuple of length 0 or 1: None is <<>>, the value v is <<v>>.
None == <<>>

Some(v) == <<v>>

\* str.strip() of blanks, as int() does before parsing
RECURSIVE LStrip(_)
LStrip(s) == IF s # <<>> /\ Head(s) = " " THEN LStrip(Tail(s)) ELSE s

RECURSIVE RStrip(_)
RStrip(s) == IF s # <<>> /\ s[Len(s)] = " " THEN RStrip(SubSeq(s, 1, Len(s) - 1)) ELSE s

\* digits with single underscores between them (PEP 515), as int() accepts
DigitsOk(s) ==
    /\ s # <<>>
    /\ \A i \in 1..Len(s) : IsDigit(s[i]) \/ s[i] = "_"
    /\ IsDigit(s[1]) /\ IsDigit(s[Len(s)])
    /\ \A i \in 1..(Len(s) - 1) : ~(s[i] = "_" /\ s[i + 1] = "_")

RECURSIVE DigitsVal(_, _)
DigitsVal(s, acc) ==
    IF s = <<>> THEN acc
    ELSE IF Head(s) = "_" THEN DigitsVal(Tail(s), acc)
    ELSE DigitsVal(Tail(s), acc * 10 + DigitVal(Head(s)))

\* The one element of a singleton set.  A variable bound over a set is
\* evaluated once, so  The({F(x) : x \in {e}})  computes e a single time
\* however often F uses x.
The(S) == CHOOSE x \in S : TRUE

\* int(t) for a str t without surrounding blanks
ParseStripped(t) ==
    LET signed == t # <<>> /\ Head(t) \in {"-", "+"}
        body == IF signed THEN Tail(t) ELSE t
    IN IF ~DigitsOk(body) THEN None
       ELSE IF signed /\ Head(t) = "-" THEN Some(0 - DigitsVal(body, 0))
       ELSE Some(DigitsVal(body, 0))

\* int(s) for a str s: Some(int), or None where Python raises ValueError
ParseInt(s) == The({ParseStripped(t) : t \in {RStrip(LStrip(s))}})

\* s.split(sep) for a one-character separator
RECURSIVE Split(_, _)
Split(s, sep) ==
    IF \A i \in 1..Len(s) : s[i] # sep THEN <<s>>
    ELSE The({<<SubSeq(s, 1, k - 1)>> \o Split(SubSeq(s, k + 1, Len(s)), sep) :
              k \in {CHOOSE i \in 1..Len(s) : s[i] = sep /\ \A j \in 1..(i - 1) : s[j] # sep}})

\* ------------------------------------------------------- random source
\* randint(l, h) and choice(seq) are nondeterministic: an operator that
\* draws returns the SET of values the draw can yield.  R is the set of
\* integers the random source delivers in the run under consideration.
randint(l, h, R) == {n \in l..h : n \in R}

choice(seq) == {seq[i] : i \in 1..Len(seq)}

\* ---------------------------------------------------------- gen_math_int
RECURSIVE TimesTen(_, _)
TimesTen(l, k) == IF k <= 0 THEN l ELSE TimesTen(l * 10, k - 1)

RECURSIVE AllOnes(_, _)
AllOnes(x, k) == IF k <= 0 THEN x ELSE AllOnes(x * 10 + 1, k - 1)

\* _is_ok of gen_math_int
IsOk(r, all_ones) == ~(r % 10 = 0) /\ ~(r = all_ones)

\* lower end of the sampled range; min is an optional int
GenLow(digits, min) ==
    LET l == TimesTen(1, digits - 1)
    IN IF min # None /\ min[1] > l THEN min[1] ELSE l

\* upper end of the sampled range; max is an optional int
GenHigh(digits, min, max) ==
    LET h == GenLow(digits, min) * 10 - 1
    IN IF max # None /\ max[1] < h THEN max[1] ELSE h

\* the values gen_math_int(digits, min, max) can return
gen_math_int(digits, min, max, R) ==
    IF digits = 1 THEN randint(2, 9, R)
    ELSE {n \in randint(GenLow(digits, min), GenHigh(digits, min, max), R) :
             IsOk(n, AllOnes(1, digits - 1))}

\* ------------------------------------------------------------- exercises
Correct == 0
Invalid == 1
Error == 2

\* a check that reports the raw input in both messages
check_RawMessage(ex, input) ==
    LET x == ParseInt(input)
    IN IF x = None THEN <<Invalid, Some(input \o <<" is NOT an integer!">>)>>
       ELSE IF x[1] # ex.answer THEN <<Error, Some(input \o <<" is Incorrect!">>)>>
       ELSE <<Correct, None>>

\* IntExercise.check: <<verdict, optional message>>
check(ex, input) ==
    LET x == ParseInt(input)
    IN IF x = None THEN <<Invalid, Some(input \o <<" is NOT an integer!">>)>>
       ELSE IF x[1] # ex.answer THEN <<Error, Some(Str(x[1]) \o <<" is Incorrect!">>)>>
       ELSE <<Correct, None>>

\* [int(x) for x in strrepr.split(",")] unpacked into exactly two names:
\* Some(<<a, b>>), or None where int() or the unpacking raises ValueError
ParseOperands(strrepr) ==
    The({IF Len(ints) = 2 /\ ints[1] # None /\ ints[2] # None
         THEN Some(<<ints[1][1], ints[2][1]>>)
         ELSE None :
         ints \in {The({[i \in 1..Len(parts) |-> ParseInt(parts[i])] :
                        parts \in {Split(strrepr, ",")}})}})

\* the object TwoXTwoExercise.__init__ leaves once a and b are set
TwoXTwoOf(a, b) == [TYPE |-> "Int2X2", a |-> a, b |-> b, answer |-> a * b]

\* TwoXTwoExercise(strrepr): the set of outcomes, Some(object) or None (raised)
TwoXTwoExercise(strrepr, R) ==
    IF strrepr # None /\ strrepr[1] # <<>>
    THEN {IF ab = None THEN None ELSE Some(TwoXTwoOf(ab[1][1], ab[1][2])) :
          ab \in {ParseOperands(strrepr[1])}}
    ELSE {Some(TwoXTwoOf(a, b)) : a \in gen_math_int(2, None, None, R),
                                  b \in gen_math_int(2, None, None, R)}

\* a display string that blanks an operand as well as the product
TwoXTwoStr_TwoMarkers(ex) == <<"?", " x ">> \o Str(ex.b) \o <<" = ", "?">>

\* TwoXTwoExercise.__str__
TwoXTwoStr(ex) == Str(ex.a) \o <<" x ">> \o Str(ex.b) \o <<" = ", "?">>

\* six pairs of which the third stores the operand that is shown
Phrasings_WrongBlank(a, b, c) ==
    << <<Str(a) \o <<" x ">> \o Str(b) \o <<" = ", "?">>, c>>,
       <<Str(b) \o <<" x ">> \o Str(a) \o <<" = ", "?">>, c>>,
       <<Str(a) \o <<" x ", "?", " = ">> \o Str(c), a>>,
       <<Str(b) \o <<" x ", "?", " = ">> \o Str(c), a>>,
       <<<<"?", " x ">> \o Str(a) \o <<" = ">> \o Str(c), b>>,
       <<<<"?", " x ">> \o Str(b) \o <<" = ">> \o Str(c), a>> >>

\* the six (ex_str, answer) pairs OneXTwoExercise chooses from
Phrasings(a, b, c) ==
    << <<Str(a) \o <<" x ">> \o Str(b) \o <<" = ", "?">>, c>>,
       <<Str(b) \o <<" x ">> \o Str(a) \o <<" = ", "?">>, c>>,
       <<Str(a) \o <<" x ", "?", " = ">> \o Str(c), b>>,
       <<Str(b) \o <<" x ", "?", " = ">> \o Str(c), a>>,
       <<<<"?", " x ">> \o Str(a) \o <<" = ">> \o Str(c), b>>,
       <<<<"?", " x ">> \o Str(b) \o <<" = ">> \o Str(c), a>> >>

\* the objects OneXTwoExercise.__init__ can leave once a and b are set
OneXTwoOf(a, b) ==
    {[TYPE |-> "Int1X2", a |-> a, b |-> b, c |-> a * b,
      ex_str |-> p[1], answer |-> p[2]] : p \in choice(Phrasings(a, b, a * b))}

\* draws that take a from gen_math_int(1) whatever b is
OneXTwoDraws_AnyA(R) ==
    UNION {{<<a, b>> : a \in gen_math_int(1, None, None, R)} :
           b \in gen_math_int(2, None, Some(29), R)}

\* the operand pairs <<a, b>> a fresh OneXTwoExercise draws
OneXTwoDraws(R) ==
    UNION {{<<a, b>> : a \in (IF b < 20 THEN gen_math_int(1, None, None, R)
                              ELSE choice(<<2, 3>>))} :
           b \in gen_math_int(2, None, Some(29), R)}

\* OneXTwoExercise(strrepr): the set of outcomes, Some(object) or None (raised)
OneXTwoExercise(strrepr, R) ==
    IF strrepr # None /\ strrepr[1] # <<>>
    THEN UNION {IF ab = None THEN {None}
                ELSE {Some(ex) : ex \in OneXTwoOf(ab[1][1], ab[1][2])} :
                ab \in {ParseOperands(strrepr[1])}}
    ELSE UNION {{Some(ex) : ex \in OneXTwoOf(d[1], d[2])} : d \in OneXTwoDraws(R)}

\* str(ex): __str__ of the object's class
ExStr(ex) == IF ex.TYPE = "Int2X2" THEN TwoXTwoStr(ex) ELSE ex.ex_str

\* a representation that lists the operands in the other order
get_repr_Swapped(ex) == Str(ex.b) \o <<",">> \o Str(ex.a)

\* a representation that also records the stored answer
get_repr_WithAnswer(ex) == Str(ex.a) \o <<",">> \o Str(ex.b) \o <<",">> \o Str(ex.answer)

\* ex.get_repr(): both classes return f"{self.a},{self.b}"
get_repr(ex) == Str(ex.a) \o <<",">> \o Str(ex.b)

\* -------------------------------------------------------------- registry
\* _ALL_EXERCISES after the module is loaded: the two register calls
ALL_EXERCISES == <<"Int2X2", "Int1X2">>

Registered(ty) == \E i \in 1..Len(ALL_EXERCISES) : ALL_EXERCISES[i] = ty

\* _ALL_EXERCISES[ty](strrepr)
Construct(ty, strrepr, R) ==
    IF ty = "Int2X2" THEN TwoXTwoExercise(strrepr, R) ELSE OneXTwoExercise(strrepr, R)

\* create_exercise(ty, strrepr): the outcomes; None also where the assert fails
create_exercise(ty, strrepr, R) ==
    IF ~Registered(ty) THEN {None} ELSE Construct(ty, Some(strrepr), R)

\* ------------------------------------------------------------ generators
\* TypeExerciseGen(types): types is <<"str", tag>> or <<"list", tags>>
TypeExerciseGen(types) == [types |-> types]

\* TypeExerciseGen.get_an_exercise: the outcomes, Some(object) or None (raised)
TypeGet(g, R) ==
    LET tys == IF g.types[1] = "list" THEN choice(g.types[2]) ELSE {g.types[2]}
    IN UNION {IF ~Registered(ty) THEN {None} ELSE Construct(ty, None, R) : ty \in tys}

\* ReprExerciseGen(reprs, is_random)
ReprExerciseGen(reprs, is_random) == [reprs |-> reprs, is_random |-> is_random, idx |-> 0]

\* a cursor that stops at the last entry instead of wrapping
NextIdx_NoWrap(g) == IF g.idx + 1 >= Len(g.reprs) THEN g.idx ELSE g.idx + 1

\* the cursor after one sequential get_an_exercise (Python lists index from 0)
NextIdx(g) == IF g.idx + 1 >= Len(g.reprs) THEN 0 ELSE g.idx + 1

\* ReprExerciseGen.get_an_exercise: the set of <<entry used, generator after,
\* outcome>>, the outcome Some(object) or None (raised)
ReprGet(g, R) ==
    IF g.is_random
    THEN UNION {{<<i, g, o>> : o \in create_exercise(g.reprs[i + 1][1], g.reprs[i + 1][2], R)} :
                i \in 0..(Len(g.reprs) - 1)}
    ELSE {<<g.idx, [g EXCEPT !.idx = NextIdx(g)], o>> :
            o \in create_exercise(g.reprs[g.idx + 1][1], g.reprs[g.idx + 1][2], R)}

\* --------------------------------------------------------------- session
\* ExerciseSession.__init__; date is datetime.today() formatted, one chunk
ExerciseSession(date) ==
    [count |-> 0, correct |-> 0, incorrect |-> 0, items |-> <<>>,
     total_time |-> 0, date |-> date]

\* a finish_an_exercise that forgets to count an incorrect attempt
finish_an_exercise_NoIncorrect(s, ex, correct, ms_elapsed) ==
    [s EXCEPT !.count = @ + 1,
              !.total_time = @ + ms_elapsed,
              !.correct = IF correct THEN @ + 1 ELSE @,
              !.items = Append(@, [type |-> ex.TYPE, repr |-> get_repr(ex),
                                   correct |-> correct, ms_elapsed |-> ms_elapsed,
                                   date |-> s.date])]

\* a finish_an_exercise that puts the new record first
finish_an_exercise_Prepend(s, ex, correct, ms_elapsed) ==
    [s EXCEPT !.count = @ + 1,
              !.total_time = @ + ms_elapsed,
              !.correct = IF correct THEN @ + 1 ELSE @,
              !.incorrect = IF correct THEN @ ELSE @ + 1,
              !.items = <<[type |-> ex.TYPE, repr |-> get_repr(ex),
                           correct |-> correct, ms_elapsed |-> ms_elapsed,
                           date |-> s.date]>> \o @]

\* ExerciseSession.finish_an_exercise: the session after the call
finish_an_exercise(s, ex, correct, ms_elapsed) ==
    [s EXCEPT !.count = @ + 1,
              !.total_time = @ + ms_elapsed,
              !.correct = IF correct THEN @ + 1 ELSE @,
              !.incorrect = IF correct THEN @ ELSE @ + 1,
              !.items = Append(@, [type |-> ex.TYPE, repr |-> get_repr(ex),
                                   correct |-> correct, ms_elapsed |-> ms_elapsed,
                                   date |-> s.date])]

\* ----------------------------------------------------------- persistence
\* A file is None (absent) or Some(content), the content a chunk sequence.
SessionsHeader ==
    <<"date", ",", "duration_ms", ",", "count", ",", "correct", ",", "incorrect", "\n">>

ExercisesHeader ==
    <<"type", ",", "repr", ",", "correct", ",", "ms_elapsed", ",", "date", "\n">>

\* the line store_results writes for the session
SessionRow(s) ==
    <<s.date, ",">> \o Str(s.total_time) \o <<",">> \o Str(s.count) \o <<",">>
        \o Str(s.correct) \o <<",">> \o Str(s.incorrect) \o <<"\n">>

\* the line store_results writes for one item
ItemRow(x) ==
    <<x.type, ",">> \o x.repr \o <<",">> \o Str(IF x.correct THEN 1 ELSE 0) \o <<",">>
        \o Str(x.ms_elapsed) \o <<",", x.date, "\n">>

RECURSIVE ItemRows(_)
ItemRows(items) == IF items = <<>> THEN <<>> ELSE ItemRow(Head(items)) \o ItemRows(Tail(items))

\* an open(p, "w"): the file is overwritten
AppendTo_Truncate(file, header, text) == Some(header \o text)

\* writes that repeat the header on every call
AppendTo_AlwaysHeader(file, header, text) ==
    IF file = None THEN Some(header \o text) ELSE Some(file[1] \o header \o text)

\* open(p, "a") then the writes: header first when the file did not exist
AppendTo(file, header, text) ==
    IF file = None THEN Some(header \o text) ELSE Some(file[1] \o text)

\* a store_results without the guard on count
store_results_NoGuard(s, fs) ==
    [sessions |-> AppendTo(fs.sessions, SessionsHeader, SessionRow(s)),
     exercises |-> AppendTo(fs.exercises, ExercisesHeader, ItemRows(s.items))]

\* ExerciseSession.store_results: the two files after the call
store_results(s, fs) ==
    IF s.count = 0 THEN fs
    ELSE [sessions |-> AppendTo(fs.sessions, SessionsHeader, SessionRow(s)),
          exercises |-> AppendTo(fs.exercises, ExercisesHeader, ItemRows(s.items))]

\* ------------------------------------------------------------ application
VARIABLES
    ui,          \* the widget MainApp.ui: "StartUI", "ExerciseUI", "SummaryUI"; "crashed" once a handler raised
    app_queue,   \* messages posted to MainApp and not yet handled, oldest first
    start_msg,   \* MainApp.start_msg (optional)
    eui,         \* the fields of the current ExerciseUI (optional)
    fs,          \* _data/sessions.csv and _data/exercises.csv
    n_sessions,  \* history: ExerciseUI instances created so far
    n_finished,  \* history: finish_an_exercise calls made so far, on any session
    store_calls, \* history: store_results calls on the current session
    stored,      \* history: the current session as its last store_results saw it (optional)
    gen_calls,   \* history: get_an_exercise calls of the current ExerciseUI
    calls,       \* history: the finish_an_exercise calls on the current session, each
                 \* <<ex.TYPE, ex.a, ex.b, correct, ms_elapsed>>
    ticks,       \* history: timer ticks delivered to the current ExerciseUI
    today,       \* the calendar day: days since the application started
    last,        \* history: the verdict of check in the handler that ran last (optional)
    rgen,        \* a ReprExerciseGen under test (optional)
    rcalls,      \* history: get_an_exercise calls made on rgen
    rlast,       \* history: <<entry used, outcome>> of the last call on rgen (optional)
    gargs,       \* a gen_math_int call under test: <<digits, min, max>> (optional)
    gpc,         \* where that call is: "idle", "start", "test", "draw", "returned", "raised"
    gn,          \* the local n of that call (optional)
    xreq,        \* an exercise constructor call under test: <<type tag, strrepr>> (optional)
    xpc,         \* where that call is: "idle", "new", "made", "raised"
    xex,         \* the exercise object it made (optional)
    xcheck,      \* history: <<input, result>> of the last check call on xex (optional)
    xrepr,       \* history: what get_repr returned for xex (optional)
    xback,       \* history: the outcome of create_exercise on xrepr (optional)
    xwidget      \* history: the outcome of ExerciseWidget(str(xex)) (optional)

vars == <<ui, app_queue, start_msg, eui, fs, n_sessions, n_finished, store_calls, stored,
          gen_calls, calls, ticks, today, last, rgen, rcalls, rlast,
          gargs, gpc, gn, xreq, xpc, xex, xcheck, xrepr, xback, xwidget>>

appVars == <<ui, app_queue, start_msg, eui, fs, n_sessions, n_finished, store_calls, stored,
             gen_calls, calls, ticks, today, last>>

reprVars == <<rgen, rcalls, rlast>>

genVars == <<gargs, gpc, gn>>

exVars == <<xreq, xpc, xex, xcheck, xrepr, xback, xwidget>>

\* the variables of the library calls under test
libVars == <<reprVars, genVars, exVars>>

\* what the random source delivers during a drill
DrillRandom == (2..MaxOperand1) \cup (10..MaxOperand2)

\* the elapsed times int((monotonic() - start_time) * 1000) can come to
ElapsedMs == 0..MaxElapsed

\* datetime.today().strftime("%Y-%m-%d") on the day-th day of the run: one chunk
DateStr(day) == "2024-05-" \o (IF day < 9 THEN "0" ELSE "") \o ToString(day + 1)

\* StartUI.DRIVERS: the time drivers scaled down to one of MaxDrive ticks
\* (the table offers 180 and 300), the two count drivers scaled down to 1
\* and MaxDrive exercises (the table offers 20 and 50)
DRIVERS == << <<"time", MaxDrive>>, <<"count", 1>>, <<"count", MaxDrive>> >>

\* StartUI.TYPES, each class by its TYPE
TYPES == <<"Int1X2", "Int2X2">>

\* StartUI.SOURCES
SOURCES == <<"new", "review">>

\* what the user can have typed into the Input when Enter is pressed
Inputs(ex) ==
    {Str(ex.answer), <<" ">> \o Str(ex.answer), Str(ex.answer + 1), <<"a">>, <<>>}

E == eui[1]

\* the messages of one kind waiting in the queue
Queued(kind) == Cardinality({i \in 1..Len(app_queue) : app_queue[i].kind = kind})

\* ExerciseUI.__init__
ExerciseUI(gen, driving_options, date) ==
    [gen |-> gen, driving_mode |-> driving_options[1], driving_count |-> driving_options[2],
     driving_remaining |-> driving_options[2], session |-> ExerciseSession(date),
     exercise |-> None, mounted |-> FALSE]

\* ExerciseUI.done: store_results, then post Completed
Done(s) ==
    /\ fs' = store_results(s, fs)
    /\ app_queue' = Append(app_queue, [kind |-> "Completed"])
    /\ store_calls' = store_calls + 1
    /\ stored' = Some(s)

NoDone == UNCHANGED <<fs, app_queue, store_calls, stored>>

\* StartUI.on_key, Enter: post Start with the three selections
StartUI_on_key ==
    /\ ui = "StartUI"
    /\ Queued("Start") < MaxStarts
    /\ \E d \in choice(DRIVERS), ty \in choice(TYPES), src \in choice(SOURCES) :
         app_queue' = Append(app_queue, [kind |-> "Start", driver |-> d, type |-> ty, source |-> src])
    /\ last' = None
    /\ UNCHANGED <<ui, start_msg, eui, fs, n_sessions, n_finished, store_calls, stored, gen_calls, calls, ticks, today>>
    /\ UNCHANGED libVars

\* MainApp.on_start_ui_start
StartExercise(msg) ==
    /\ n_sessions < MaxSessions
    /\ start_msg' = Some(msg)
    /\ eui' = Some(ExerciseUI(IF msg.source = "new"
                              THEN Some(TypeExerciseGen(<<"str", msg.type>>))
                              ELSE None,
                              msg.driver, DateStr(today)))
    /\ ui' = "ExerciseUI"
    /\ n_sessions' = n_sessions + 1
    /\ store_calls' = 0
    /\ stored' = None
    /\ gen_calls' = 0
    /\ calls' = <<>>
    /\ ticks' = 0
    /\ UNCHANGED <<fs, n_finished, today>>

MainApp_on_start_ui_start ==
    /\ ui # "crashed"
    /\ app_queue # <<>> /\ Head(app_queue).kind = "Start"
    /\ app_queue' = Tail(app_queue)
    /\ StartExercise(Head(app_queue))
    /\ last' = None
    /\ UNCHANGED libVars

\* MainApp.on_exercise_ui_completed
MainApp_on_exercise_ui_completed ==
    /\ ui # "crashed"
    /\ app_queue # <<>> /\ Head(app_queue).kind = "Completed"
    /\ app_queue' = Tail(app_queue)
    /\ ui' = "SummaryUI"
    /\ last' = None
    /\ UNCHANGED <<start_msg, eui, fs, n_sessions, n_finished, store_calls, stored, gen_calls, calls, ticks, today>>
    /\ UNCHANGED libVars

\* SummaryUI.on_key, Enter: post Command("do_more")
SummaryUI_on_key ==
    /\ ui = "SummaryUI"
    /\ Queued("Command") < MaxStarts
    /\ n_sessions < MaxSessions
    /\ app_queue' = Append(app_queue, [kind |-> "Command", command |-> "do_more"])
    /\ last' = None
    /\ UNCHANGED <<ui, start_msg, eui, fs, n_sessions, n_finished, store_calls, stored, gen_calls, calls, ticks, today>>
    /\ UNCHANGED libVars

\* MainApp.on_summary_ui_command
MainApp_on_summary_ui_command ==
    /\ ui # "crashed"
    /\ app_queue # <<>> /\ Head(app_queue).kind = "Command"
    /\ app_queue' = Tail(app_queue)
    /\ IF Head(app_queue).command = "do_more"
       THEN StartExercise(start_msg[1])
       ELSE UNCHANGED <<ui, start_msg, eui, fs, n_sessions, n_finished, store_calls, stored, gen_calls, calls, ticks, today>>
    /\ last' = None
    /\ UNCHANGED libVars

\* ExerciseWidget.__init__: Some(ex_exercise), or None where the assert fails
ExerciseWidget(exercise) ==
    The({IF Len(parts) = 2 THEN Some(parts) ELSE None : parts \in {Split(exercise, "?")}})

\* ExerciseUI.new_exercise: the exercises it can present; None where
\* get_an_exercise raises (no generator, or the generator raised) or the
\* assert of the ExerciseWidget made for the exercise fails
new_exercise(e, R) ==
    IF e.gen = None THEN {None}
    ELSE {IF o # None /\ ExerciseWidget(ExStr(o[1])) = None THEN None ELSE o :
          o \in TypeGet(e.gen[1], R)}

\* ExerciseUI.on_mount: start the timer in time mode, present the first exercise
ExerciseUI_on_mount ==
    /\ ui = "ExerciseUI" /\ ~E.mounted
    /\ \E ex \in new_exercise(E, DrillRandom) :
         IF ex = None
         THEN ui' = "crashed" /\ eui' = eui /\ gen_calls' = gen_calls
         ELSE /\ ui' = ui
              /\ eui' = Some([E EXCEPT !.exercise = ex, !.mounted = TRUE])
              /\ gen_calls' = gen_calls + 1
    /\ last' = None
    /\ UNCHANGED <<app_queue, start_msg, fs, n_sessions, n_finished, store_calls, stored, calls, ticks, today>>
    /\ UNCHANGED libVars

\* an on_key that records an unparseable answer as an incorrect attempt
on_key_enter_InvalidCounts(e, input, ms_elapsed, R) ==
    LET cur == e.exercise[1]
        result == check(cur, input)[1]
    IN IF result # Correct
       THEN {[e |-> [e EXCEPT !.session = finish_an_exercise(@, cur, FALSE, ms_elapsed)],
              drawn |-> 0, finished |-> << <<cur.TYPE, cur.a, cur.b, FALSE, ms_elapsed>> >>]}
       ELSE {[e |-> [e EXCEPT !.session = finish_an_exercise(@, cur, TRUE, ms_elapsed),
                              !.exercise = ex,
                              !.driving_remaining = IF e.driving_mode = "count" THEN @ - 1 ELSE @],
              drawn |-> 1, finished |-> << <<cur.TYPE, cur.a, cur.b, TRUE, ms_elapsed>> >>] :
             ex \in new_exercise(e, R)}

\* an on_key that replaces the exercise after every counted attempt
on_key_enter_ErrorAdvances(e, input, ms_elapsed, R) ==
    LET cur == e.exercise[1]
        result == check(cur, input)[1]
    IN IF result = Invalid
       THEN {[e |-> e, drawn |-> 0, finished |-> <<>>]}
       ELSE {[e |-> [e EXCEPT !.session = finish_an_exercise(@, cur, result = Correct, ms_elapsed),
                              !.exercise = ex,
                              !.driving_remaining =
                                  IF e.driving_mode = "count" /\ result = Correct THEN @ - 1 ELSE @],
              drawn |-> 1,
              finished |-> << <<cur.TYPE, cur.a, cur.b, result = Correct, ms_elapsed>> >>] :
             ex \in new_exercise(e, R)}

\* an on_key that takes every counted attempt off the budget
on_key_enter_ErrorConsumes(e, input, ms_elapsed, R) ==
    LET cur == e.exercise[1]
        result == check(cur, input)[1]
    IN IF result = Invalid
       THEN {[e |-> e, drawn |-> 0, finished |-> <<>>]}
       ELSE IF result = Error
       THEN {[e |-> [e EXCEPT !.session = finish_an_exercise(@, cur, FALSE, ms_elapsed),
                              !.driving_remaining = IF e.driving_mode = "count" THEN @ - 1 ELSE @],
              drawn |-> 0, finished |-> << <<cur.TYPE, cur.a, cur.b, FALSE, ms_elapsed>> >>]}
       ELSE {[e |-> [e EXCEPT !.session = finish_an_exercise(@, cur, TRUE, ms_elapsed),
                              !.exercise = ex,
                              !.driving_remaining = IF e.driving_mode = "count" THEN @ - 1 ELSE @],
              drawn |-> 1, finished |-> << <<cur.TYPE, cur.a, cur.b, TRUE, ms_elapsed>> >>] :
             ex \in new_exercise(e, R)}

\* ExerciseUI.on_key for Enter, up to the final test of driving_remaining:
\* the outcomes, each with the ExerciseUI after (e), the number of exercises
\* drawn from the generator (drawn) and the finish_an_exercise calls made
\* (finished, each <<ex.TYPE, ex.a, ex.b, correct, ms_elapsed>>)
on_key_enter(e, input, ms_elapsed, R) ==
    LET cur == e.exercise[1]
        result == check(cur, input)[1]
    IN IF result # Correct
       THEN IF result = Invalid
            THEN {[e |-> e, drawn |-> 0, finished |-> <<>>]}
            ELSE IF result = Error
            THEN {[e |-> [e EXCEPT !.session = finish_an_exercise(@, cur, FALSE, ms_elapsed)],
                   drawn |-> 0, finished |-> << <<cur.TYPE, cur.a, cur.b, FALSE, ms_elapsed>> >>]}
            ELSE {[e |-> e, drawn |-> 0, finished |-> <<>>]}
       ELSE {[e |-> [e EXCEPT !.session = finish_an_exercise(@, cur, TRUE, ms_elapsed),
                              !.exercise = ex,
                              !.driving_remaining = IF e.driving_mode = "count" THEN @ - 1 ELSE @],
              drawn |-> 1, finished |-> << <<cur.TYPE, cur.a, cur.b, TRUE, ms_elapsed>> >>] :
             ex \in new_exercise(e, R)}

\* ExerciseUI.on_key, Enter
ExerciseUI_on_key_enter ==
    /\ ui = "ExerciseUI" /\ E.mounted
    /\ Queued("Completed") < MaxQueue
    /\ \E input \in Inputs(E.exercise[1]), ms \in ElapsedMs :
         \E o \in on_key_enter(E, input, ms, DrillRandom) :
           /\ n_finished + Len(o.finished) <= MaxCount
           /\ n_finished' = n_finished + Len(o.finished)
           /\ eui' = Some(o.e)
           /\ gen_calls' = gen_calls + o.drawn
           /\ calls' = calls \o o.finished
           /\ IF o.e.driving_remaining <= 0 THEN Done(o.e.session) ELSE NoDone
           /\ last' = Some(check(E.exercise[1], input)[1])
    /\ UNCHANGED <<ui, start_msg, n_sessions, ticks, today>>
    /\ UNCHANGED libVars

\* ExerciseUI.on_key, ctrl+d
ExerciseUI_on_key_ctrl_d ==
    /\ ui = "ExerciseUI" /\ E.mounted
    /\ Queued("Completed") < MaxQueue
    /\ Done(E.session)
    /\ last' = None
    /\ UNCHANGED <<ui, start_msg, eui, n_sessions, n_finished, gen_calls, calls, ticks, today>>
    /\ UNCHANGED libVars

\* a time_tick that leaves the budget alone
time_tick_Stuck(e) == e

\* ExerciseUI.time_tick up to the test of driving_remaining
time_tick(e) == [e EXCEPT !.driving_remaining = @ - 1]

\* ExerciseUI.time_tick: the interval timer set in on_mount in time mode
ExerciseUI_time_tick ==
    /\ ui = "ExerciseUI" /\ E.mounted /\ E.driving_mode = "time"
    /\ ticks < MaxTicks
    /\ eui' = Some(time_tick(E))
    /\ ticks' = ticks + 1
    /\ IF time_tick(E).driving_remaining <= 0 THEN Done(E.session) ELSE NoDone
    /\ last' = None
    /\ UNCHANGED <<ui, start_msg, n_sessions, n_finished, gen_calls, calls, today>>
    /\ UNCHANGED libVars

\* the calendar day changes
Midnight ==
    /\ ui # "crashed"
    /\ today < MaxDays
    /\ today' = today + 1
    /\ last' = None
    /\ UNCHANGED <<ui, app_queue, start_msg, eui, fs, n_sessions, n_finished, store_calls,
                   stored, gen_calls, calls, ticks>>
    /\ UNCHANGED libVars

NoFiles == [sessions |-> None, exercises |-> None]

AppInit ==
    /\ ui = "StartUI"
    /\ app_queue = <<>>
    /\ start_msg = None
    /\ eui = None
    /\ fs = NoFiles
    /\ n_sessions = 0
    /\ n_finished = 0
    /\ store_calls = 0
    /\ stored = None
    /\ gen_calls = 0
    /\ calls = <<>>
    /\ ticks = 0
    /\ today = 0
    /\ last = None

ReprIdle == rgen = None /\ rcalls = 0 /\ rlast = None

GenIdle == gargs = None /\ gpc = "idle" /\ gn = None

ExIdle ==
    /\ xreq = None /\ xpc = "idle" /\ xex = None
    /\ xcheck = None /\ xrepr = None /\ xback = None /\ xwidget = None

Init == AppInit /\ ReprIdle /\ GenIdle /\ ExIdle

Next ==
    \/ StartUI_on_key
    \/ MainApp_on_start_ui_start
    \/ ExerciseUI_on_mount
    \/ ExerciseUI_on_key_enter
    \/ ExerciseUI_on_key_ctrl_d
    \/ ExerciseUI_time_tick
    \/ MainApp_on_exercise_ui_completed
    \/ SummaryUI_on_key
    \/ MainApp_on_summary_ui_command
    \/ Midnight

Spec == Init /\ [][Next]_vars

\* the application with its interval timer: set_interval(1, self.time_tick)
\* keeps delivering ticks to a mounted time-mode ExerciseUI
SpecTimer == Init /\ [][Next]_vars /\ WF_vars(ExerciseUI_time_tick)

\* ------------------------------------------------------- replay generator
\* what the random source delivers while a history is replayed
ReplayRandom == {}

\* entries of a replay history: (type tag, canonical representation)
HistoryEntries ==
    {<<"Int2X2", <<"1", "6", ",", "1", "8">> >>,
     <<"Int2X2", <<"1", "2", ",", " ", "1", "3">> >>,
     <<"Int1X2", <<"3", ",", "1", "2">> >>}

Histories == UNION {[1..n -> HistoryEntries] : n \in 1..MaxHistory}

ReprInit ==
    /\ rgen \in {Some(ReprExerciseGen(h, r)) : h \in Histories, r \in BOOLEAN}
    /\ rcalls = 0
    /\ rlast = None

\* one get_an_exercise call on the generator; the call counter stops at MaxCalls
ReprGen_get_an_exercise ==
    /\ \E t \in ReprGet(rgen[1], ReplayRandom) :
         /\ rgen' = Some(t[2])
         /\ rlast' = Some(<<t[1], t[3]>>)
    /\ rcalls' = IF rcalls < MaxCalls THEN rcalls + 1 ELSE rcalls
    /\ UNCHANGED <<appVars, genVars, exVars>>

InitRepr == AppInit /\ ReprInit /\ GenIdle /\ ExIdle

NextRepr == ReprGen_get_an_exercise

\* the caller keeps asking for exercises
SpecRepr == InitRepr /\ [][NextRepr]_vars /\ WF_vars(NextRepr)

\* ---------------------------------------------------- number generator
\* the largest digits argument of a gen_math_int call under test
MaxDigits == 2

\* the min and max arguments of a gen_math_int call under test
GenLimits == {None, Some(5), Some(10), Some(11), Some(12), Some(29)}

GenArgs == {<<d, mn, mx>> : d \in 1..MaxDigits, mn \in GenLimits, mx \in GenLimits}

\* the random source can deliver any integer of the range asked for
GenRandom == Int

G_digits == gargs[1][1]
G_l == GenLow(G_digits, gargs[1][2])
G_h == GenHigh(G_digits, gargs[1][2], gargs[1][3])
G_all_ones == AllOnes(1, G_digits - 1)

GenInit == gargs \in {Some(a) : a \in GenArgs} /\ gpc = "start" /\ gn = None

\* gen_math_int up to the first randint: the 1-digit case returns at once;
\* randint(l, h) raises ValueError when l > h
gen_math_int_begin ==
    /\ gpc = "start"
    /\ IF G_digits = 1
       THEN \E n \in randint(2, 9, GenRandom) : gn' = Some(n) /\ gpc' = "returned"
       ELSE IF G_l > G_h
       THEN gn' = None /\ gpc' = "raised"
       ELSE \E n \in randint(G_l, G_h, GenRandom) : gn' = Some(n) /\ gpc' = "test"
    /\ UNCHANGED <<gargs, appVars, reprVars, exVars>>

\* while not _is_ok(n): leave the loop and return n, or enter the body
gen_math_int_test ==
    /\ gpc = "test"
    /\ gpc' = IF IsOk(gn[1], G_all_ones) THEN "returned" ELSE "draw"
    /\ UNCHANGED <<gargs, gn, appVars, reprVars, exVars>>

\* the loop body: n = randint(l, h)
gen_math_int_draw ==
    /\ gpc = "draw"
    /\ \E n \in randint(G_l, G_h, GenRandom) : gn' = Some(n)
    /\ gpc' = "test"
    /\ UNCHANGED <<gargs, appVars, reprVars, exVars>>

\* a draw in the loop body that _is_ok accepts
gen_math_int_draw_ok == gen_math_int_draw /\ IsOk(gn'[1], G_all_ones)

InitGen == AppInit /\ ReprIdle /\ GenInit /\ ExIdle

NextGen ==
    \/ gen_math_int_begin
    \/ gen_math_int_test
    \/ gen_math_int_draw

\* the interpreter keeps running the call, and a random source that is asked
\* again and again delivers every value of the range again and again
SpecGen ==
    InitGen /\ [][NextGen]_vars /\ WF_vars(NextGen) /\ SF_vars(gen_math_int_draw_ok)

\* -------------------------------------------------------- exercise objects
\* the largest value the random source delivers to an exercise constructor
MaxRandom == 31

ExRandom == 2..MaxRandom

\* the strrepr arguments of a constructor call under test: "" (as good as
\* none), "16,18", "12, 13", "3,12", "0,12", "-3,12", "7", "a,b"
ExReprs ==
    {<<>>,
     <<"1", "6", ",", "1", "8">>,
     <<"1", "2", ",", " ", "1", "3">>,
     <<"3", ",", "1", "2">>,
     <<"0", ",", "1", "2">>,
     <<"-", "3", ",", "1", "2">>,
     <<"7">>,
     <<"a", ",", "a">>}

ExRequests ==
    {<<ty, sr>> : ty \in {ALL_EXERCISES[i] : i \in 1..Len(ALL_EXERCISES)},
                  sr \in {None} \cup {Some(r) : r \in ExReprs}}

\* what a caller can pass to check
ExInputs(ex) == Inputs(ex) \cup {<<" ">> \o Str(ex.answer + 1)}

ExInit ==
    /\ xreq \in {Some(q) : q \in ExRequests}
    /\ xpc = "new" /\ xex = None
    /\ xcheck = None /\ xrepr = None /\ xback = None /\ xwidget = None

\* _ALL_EXERCISES[ty](strrepr)
Ex_construct ==
    /\ xpc = "new"
    /\ \E o \in Construct(xreq[1][1], xreq[1][2], ExRandom) :
         /\ xex' = o
         /\ xpc' = IF o = None THEN "raised" ELSE "made"
    /\ UNCHANGED <<xreq, xcheck, xrepr, xback, xwidget, appVars, reprVars, genVars>>

\* ex.check(input): the method assigns to no attribute of the exercise
Ex_check ==
    /\ xpc = "made"
    /\ \E input \in ExInputs(xex[1]) : xcheck' = Some(<<input, check(xex[1], input)>>)
    /\ UNCHANGED <<xreq, xpc, xex, xrepr, xback, xwidget, appVars, reprVars, genVars>>

\* ex.get_repr()
Ex_get_repr ==
    /\ xpc = "made"
    /\ xrepr' = Some(get_repr(xex[1]))
    /\ UNCHANGED <<xreq, xpc, xex, xcheck, xback, xwidget, appVars, reprVars, genVars>>

\* create_exercise(ex.TYPE, <what get_repr returned>)
Ex_create_exercise ==
    /\ xpc = "made" /\ xrepr # None
    /\ \E o \in create_exercise(xex[1].TYPE, xrepr[1], ExRandom) : xback' = Some(o)
    /\ UNCHANGED <<xreq, xpc, xex, xcheck, xrepr, xwidget, appVars, reprVars, genVars>>

\* ExerciseWidget(str(ex)), as new_exercise builds it
Ex_widget ==
    /\ xpc = "made"
    /\ xwidget' = Some(ExerciseWidget(ExStr(xex[1])))
    /\ UNCHANGED <<xreq, xpc, xex, xcheck, xrepr, xback, appVars, reprVars, genVars>>

InitEx == AppInit /\ ReprIdle /\ GenIdle /\ ExInit

NextEx ==
    \/ Ex_construct
    \/ Ex_check
    \/ Ex_get_repr
    \/ Ex_create_exercise
    \/ Ex_widget

SpecEx == InitEx /\ [][NextEx]_vars

\* ================================================================ claims
\* the session of the current ExerciseUI
S == E.session

\* the step keeps the current ExerciseUI (and so its session object)
SameSession == eui # None /\ n_sessions' = n_sessions

\* C1: after any sequence of finish_an_exercise calls on a new session,
\* count, correct and incorrect are >= 0 and count = correct + incorrect;
\* each call raises count by exactly 1 and exactly one of correct and
\* incorrect by exactly 1 (correct for a correct attempt, incorrect
\* otherwise), and nothing else changes the counters.
C1_Counters ==
    /\ [](eui # None =>
            /\ S.count >= 0 /\ S.correct >= 0 /\ S.incorrect >= 0
            /\ S.count = S.correct + S.incorrect
            /\ S.count = Len(calls))
    /\ [][SameSession =>
            IF Len(calls') = Len(calls) + 1
            THEN /\ S'.count = S.count + 1
                 /\ IF calls'[Len(calls')][4]
                    THEN S'.correct = S.correct + 1 /\ S'.incorrect = S.incorrect
                    ELSE S'.correct = S.correct /\ S'.incorrect = S.incorrect + 1
            ELSE /\ calls' = calls
                 /\ S'.count = S.count /\ S'.correct = S.correct
                 /\ S'.incorrect = S.incorrect]_vars

\* a session after one correct and one incorrect attempt
C1_Witness == eui # None /\ S.count = 2 /\ S.correct = 1 /\ S.incorrect = 1

RECURSIVE SumMs(_)
SumMs(items) == IF items = <<>> THEN 0 ELSE Head(items).ms_elapsed + SumMs(Tail(items))

\* C2: after any sequence of finish_an_exercise calls there is one item
\* record per call, in call order, each built from its call's arguments and
\* carrying the date fixed when the session was constructed; total_time is
\* the sum of the items' ms_elapsed and is >= 0.
C2_Items ==
    /\ [](eui # None =>
            /\ Len(S.items) = S.count
            /\ Len(S.items) = Len(calls)
            /\ \A i \in 1..Len(calls) :
                 /\ S.items[i].type = calls[i][1]
                 /\ S.items[i].repr = Str(calls[i][2]) \o <<",">> \o Str(calls[i][3])
                 /\ S.items[i].correct = calls[i][4]
                 /\ S.items[i].ms_elapsed = calls[i][5]
                 /\ S.items[i].date = S.date
            /\ S.total_time = SumMs(S.items)
            /\ S.total_time >= 0)
    /\ [][SameSession => S'.date = S.date]_vars

\* two items that differ, recorded on the day after the session was constructed
C2_Witness ==
    /\ eui # None /\ Len(S.items) = 2
    /\ S.items[1].correct # S.items[2].correct
    /\ S.items[1].ms_elapsed # S.items[2].ms_elapsed
    /\ S.date # DateStr(today)

\* the lines of a file's content: the pieces that end in "\n"
Lines(content) ==
    LET parts == Split(content, "\n")
    IN IF parts[Len(parts)] = <<>> THEN SubSeq(parts, 1, Len(parts) - 1) ELSE parts

\* the data rows (the lines after the header) of a file, <<>> if it is absent
DataRows(file) == IF file = None THEN <<>> ELSE Tail(Lines(file[1]))

\* C3: each session is persisted exactly once (store_results runs once per
\* session, at its end), so the sessions created so far have contributed at
\* most one row each to sessions.csv, and the items finished so far have
\* been written at most once each to exercises.csv.
C3_PersistedOnce ==
    /\ Len(DataRows(fs.sessions)) <= n_sessions
    /\ Len(DataRows(fs.exercises)) <= n_finished

\* C4: once store_results has run for a session, the session is not mutated
\* again: it stays as that store_results saw it.
C4_NoMutationAfterStore == stored # None => S = stored[1]

\* C5: when check returns Invalid for a submitted answer, the submission
\* does not count: the session (count, correct, incorrect, total_time,
\* items) is unchanged, driving_remaining is unchanged, no exercise is drawn
\* and the same exercise remains presented.
C5_InvalidDoesNotCount ==
    [][last' = Some(Invalid) =>
         /\ S' = S
         /\ E'.driving_remaining = E.driving_remaining
         /\ E'.exercise = E.exercise
         /\ gen_calls' = gen_calls
         /\ calls' = calls]_vars

\* an Invalid submission in a count-mode drill that already has an item
C5_Witness ==
    /\ last = Some(Invalid) /\ eui # None
    /\ E.driving_mode = "count" /\ S.count = 1 /\ E.driving_remaining = 1

\* C6: when check returns Error, the submission counts as an attempt: count
\* and incorrect each increase by exactly 1, correct is unchanged, one item
\* with correct = FALSE is appended, no exercise is drawn from the generator
\* and the same exercise stays presented.
C6_ErrorCounts ==
    [][last' = Some(Error) =>
         /\ S'.count = S.count + 1
         /\ S'.incorrect = S.incorrect + 1
         /\ S'.correct = S.correct
         /\ Len(S'.items) = Len(S.items) + 1
         /\ SubSeq(S'.items, 1, Len(S.items)) = S.items
         /\ S'.items[Len(S'.items)].correct = FALSE
         /\ E'.exercise = E.exercise
         /\ gen_calls' = gen_calls]_vars

\* an Error submission after a Correct one
C6_Witness ==
    /\ last = Some(Error) /\ eui # None
    /\ S.count = 2 /\ S.incorrect = 1 /\ S.items[2].correct = FALSE

\* the generator under test and the length of its history
G == rgen[1]

HistoryLen == Len(G.reprs)

\* the last call used history entry i and returned the exercise built from it
Returned(i) ==
    /\ rlast # None /\ rlast[1][1] = i
    /\ rlast[1][2] # None
    /\ rlast[1][2][1].TYPE = G.reprs[i + 1][1]
    /\ Some(<<rlast[1][2][1].a, rlast[1][2][1].b>>) = ParseOperands(G.reprs[i + 1][2])

\* C7: for a sequential ReprExerciseGen over n >= 1 entries, the k-th
\* get_an_exercise call (k = 0, 1, ...) returns the exercise built from entry
\* k mod n, the cursor stays within 0..n-1, and every entry is returned again
\* and again.
C7_SequentialReplay ==
    /\ [](~G.is_random =>
            /\ G.idx \in 0..(HistoryLen - 1)
            /\ (rcalls < MaxCalls => G.idx = rcalls % HistoryLen)
            /\ (rcalls > 0 => Returned((G.idx + HistoryLen - 1) % HistoryLen))
            /\ (rcalls > 0 /\ rcalls < MaxCalls => Returned((rcalls - 1) % HistoryLen)))
    /\ \A i \in 0..(MaxHistory - 1) :
         [](~G.is_random /\ i < HistoryLen => <>Returned(i))

\* the fourth call on a three-entry history wraps to entry 0
C7_Witness == ~G.is_random /\ HistoryLen = 3 /\ rcalls = 4 /\ Returned(0)

\* the step is a store_results call on the current session
StoreStep == SameSession /\ store_calls' = store_calls + 1

\* C8: store_results on a session with count = 0 writes nothing: both files
\* stay absent or keep their content.
C8_EmptySessionNotStored ==
    [][StoreStep /\ S'.count = 0 => fs' = fs]_vars

\* an empty session was stored while the logs of an earlier session exist
C8_Witness ==
    /\ eui # None /\ store_calls >= 1 /\ S.count = 0
    /\ fs.sessions # None /\ fs.exercises # None

\* content is what a file held before and still starts with
KeepsContent(before, after) ==
    before # None =>
        /\ after # None
        /\ Len(after[1]) >= Len(before[1])
        /\ SubSeq(after[1], 1, Len(before[1])) = before[1]

\* the line of exercises.csv expected for an item record
ExpectedItemLine(x) ==
    <<x.type, ",">> \o x.repr \o <<",", IF x.correct THEN "1" ELSE "0", ",">>
        \o Str(x.ms_elapsed) \o <<",", x.date>>

\* C9: store_results on a session with count > 0 appends exactly one row
\* (date, total_time, count, correct, incorrect) to sessions.csv and one row
\* per item, in item order, correct written as 1 or 0, to exercises.csv;
\* what either file held before is left unchanged.
C9_StoreAppends ==
    [][StoreStep /\ S'.count > 0 =>
         /\ fs'.sessions # None /\ fs'.exercises # None
         /\ KeepsContent(fs.sessions, fs'.sessions)
         /\ KeepsContent(fs.exercises, fs'.exercises)
         /\ Len(DataRows(fs'.sessions)) = Len(DataRows(fs.sessions)) + 1
         /\ Split(DataRows(fs'.sessions)[Len(DataRows(fs'.sessions))], ",")
              = << <<S'.date>>, Str(S'.total_time), Str(S'.count),
                   Str(S'.correct), Str(S'.incorrect) >>
         /\ DataRows(fs'.exercises)
              = DataRows(fs.exercises)
                  \o [i \in 1..Len(S'.items) |-> ExpectedItemLine(S'.items[i])]]_vars

\* a second session was appended to the logs an earlier session had written
C9_Witness ==
    /\ eui # None /\ store_calls = 1 /\ stored = Some(S) /\ n_sessions = 2
    /\ S.count = 1
    /\ Len(DataRows(fs.sessions)) = 2

HeaderLine(header) == SubSeq(header, 1, Len(header) - 1)

HeaderOnce(file, header) ==
    file # None =>
        LET lines == Lines(file[1])
        IN /\ lines # <<>>
           /\ lines[1] = HeaderLine(header)
           /\ Cardinality({i \in 1..Len(lines) : lines[i] = HeaderLine(header)}) = 1

\* C10: after any sequence of store_results calls by any number of sessions,
\* each log file that exists begins with its header line and holds that
\* header exactly once.
C10_HeaderOnce ==
    /\ HeaderOnce(fs.sessions, SessionsHeader)
    /\ HeaderOnce(fs.exercises, ExercisesHeader)

\* both logs were written by two store_results calls
C10_Witness ==
    /\ fs.sessions # None /\ fs.exercises # None
    /\ Len(Lines(fs.sessions[1])) = 3 /\ Len(Lines(fs.exercises[1])) >= 3

\* the fields of a line of a comma-delimited file
Fields(line) == Split(line, ",")

\* every data row of the file has as many fields as the header names
RowsMatch(file, header) ==
    \A i \in 1..Len(DataRows(file)) :
        Len(Fields(DataRows(file)[i])) = Len(Fields(HeaderLine(header)))

\* C11: every data row of exercises.csv, split on commas, has exactly the
\* five fields its header names (type, repr, correct, ms_elapsed, date), and
\* every data row of sessions.csv the five fields of its header.
C11_RowsMatchHeader ==
    /\ RowsMatch(fs.sessions, SessionsHeader)
    /\ RowsMatch(fs.exercises, ExercisesHeader)

RECURSIVE Pow10(_)
Pow10(k) == IF k <= 0 THEN 1 ELSE 10 * Pow10(k - 1)

\* the repeated-digit value 11...1 of the given length
Repunit(digits) == (Pow10(digits) - 1) \div 9

\* the range of the claim: max(10^(digits-1), min) .. min(10^digits - 1, max)
ClaimedLow(digits, min) ==
    IF min # None /\ min[1] > Pow10(digits - 1) THEN min[1] ELSE Pow10(digits - 1)

ClaimedHigh(digits, max) ==
    IF max # None /\ max[1] < Pow10(digits) - 1 THEN max[1] ELSE Pow10(digits) - 1

\* C13: a gen_math_int call that returns, returns n in [2, 9] for digits = 1,
\* and for digits > 1 an n with max(10^(digits-1), min) <= n <=
\* min(10^digits - 1, max), not divisible by 10, not the repeated-digit value,
\* and so of exactly `digits` decimal digits.
C13_GenRange ==
    gpc = "returned" =>
        IF G_digits = 1 THEN gn[1] \in 2..9
        ELSE /\ ClaimedLow(G_digits, gargs[1][2]) <= gn[1]
             /\ gn[1] <= ClaimedHigh(G_digits, gargs[1][3])
             /\ gn[1] % 10 # 0
             /\ gn[1] # Repunit(G_digits)
             /\ Len(Str(gn[1])) = G_digits

\* C14: every gen_math_int call ends: it returns a value or fails with an
\* error, it never resamples for ever.
C14_GenTerminates == <>(gpc \in {"returned", "raised"})

\* the exercise object under test
X == xex[1]

\* the result the claim gives for an input and a stored answer
ExpectedCheck(answer, input) ==
    IF ParseInt(input) = None
    THEN <<Invalid, Some(input \o <<" is NOT an integer!">>)>>
    ELSE IF ParseInt(input)[1] # answer
    THEN <<Error, Some(Str(ParseInt(input)[1]) \o <<" is Incorrect!">>)>>
    ELSE <<Correct, None>>

\* C12: the result of check is determined by the raw input and the stored
\* answer alone: (Invalid, "<input> is NOT an integer!") when the input does
\* not parse, (Error, "<parsed> is Incorrect!") when it parses to another
\* value, (Correct, no message) when it parses to the answer; a check call
\* changes nothing of the exercise, so repeating a call repeats its result.
C12_CheckPure ==
    /\ [](xcheck # None => xcheck[1][2] = ExpectedCheck(X.answer, xcheck[1][1]))
    /\ [][xcheck' # xcheck => xex' = xex]_vars

\* a wrong integer typed after a blank: the message shows the parsed value
C12_Witness ==
    /\ xcheck # None /\ xcheck[1][2][1] = Error
    /\ Head(xcheck[1][1]) = " "
    /\ xcheck[1][2][2] = Some(Str(X.answer + 1) \o <<" is Incorrect!">>)

\* C15: for every TwoXTwoExercise, freshly generated or reconstructed, the
\* exercise made from its get_repr() has the same get_repr(), the same
\* operands a and b and the same answer a * b.
C15_RoundTrip ==
    xex # None /\ X.TYPE = "Int2X2" /\ xback # None =>
        /\ xrepr = Some(get_repr(X))
        /\ xback[1] # None
        /\ get_repr(xback[1][1]) = get_repr(X)
        /\ xback[1][1].a = X.a /\ xback[1][1].b = X.b
        /\ xback[1][1].answer = X.a * X.b /\ X.answer = X.a * X.b

\* the round trip of an exercise that was itself made from "12, 13"
C15_Witness ==
    /\ xex # None /\ X.TYPE = "Int2X2" /\ xback # None
    /\ xreq[1][2] = Some(<<"1", "2", ",", " ", "1", "3">>)
    /\ xrepr = Some(<<"1", "2", ",", "1", "3">>)

\* C16: get_repr() of a OneXTwoExercise with operands (a, b) is "a,b"
\* whichever phrasing was drawn: two exercises with the same operands and
\* different blanked positions have the same representation, and it holds
\* neither the blank nor the stored answer as a further field.
C16_ReprIgnoresPhrasing ==
    xex # None /\ X.TYPE = "Int1X2" /\ xrepr # None =>
        /\ xrepr[1] = Str(X.a) \o <<",">> \o Str(X.b)
        /\ \A i \in 1..Len(xrepr[1]) : xrepr[1][i] # "?"
        /\ Fields(xrepr[1]) = <<Str(X.a), Str(X.b)>>
        /\ xback # None =>
             /\ xback[1] # None
             /\ xback[1][1].a = X.a /\ xback[1][1].b = X.b
             /\ get_repr(xback[1][1]) = xrepr[1]

\* two exercises with the same operands, one blanking an operand in front,
\* the other blanking the product
C16_Witness ==
    /\ xex # None /\ X.TYPE = "Int1X2" /\ xrepr # None /\ xback # None
    /\ xback[1] # None
    /\ Head(X.ex_str) = "?" /\ X.answer = X.a
    /\ xback[1][1].answer = X.c /\ X.c # X.a

\* the number of placeholder markers in a display string
Markers(text) == Cardinality({i \in 1..Len(text) : text[i] = "?"})

\* C17: the display string of every exercise of either type, freshly
\* generated or reconstructed, holds exactly one '?': splitting it on '?'
\* yields 2 parts and the assertion of ExerciseWidget.__init__ holds.
C17_OneMarker ==
    /\ xex # None => Markers(ExStr(X)) = 1
    /\ xwidget # None => xwidget[1] # None /\ Len(xwidget[1][1]) = 2

\* the widget of a reconstructed exercise that starts with the marker
C17_Witness ==
    /\ xwidget # None /\ xwidget[1] # None /\ xex # None
    /\ xreq[1][2] = Some(<<"-", "3", ",", "1", "2">>)
    /\ xwidget[1][1][1] = <<>>

\* a display string with the text v in place of the marker
RECURSIVE Substitute(_, _)
Substitute(text, v) ==
    IF text = <<>> THEN <<>>
    ELSE (IF Head(text) = "?" THEN v ELSE <<Head(text)>>) \o Substitute(Tail(text), v)

\* the three texts l, m, r of a display string "l x m = r"
Equation(text) ==
    LET lm == Split(text, " x ")
        mr == Split(lm[2], " = ")
    IN <<lm[1], mr[1], mr[2]>>

\* the display string with v for the marker is a true multiplication
TrueEquation(text, v) ==
    LET eq == Equation(Substitute(text, v))
    IN /\ ParseInt(eq[1]) # None /\ ParseInt(eq[2]) # None /\ ParseInt(eq[3]) # None
       /\ ParseInt(eq[1])[1] * ParseInt(eq[2])[1] = ParseInt(eq[3])[1]

\* the quantity a display string blanks: the product when the marker is on
\* the right, else the operand that is not shown on the left
BlankedQuantity(ex) ==
    LET eq == Equation(ex.ex_str)
        shown == IF eq[1] = <<"?">> THEN eq[2] ELSE eq[1]
    IN IF eq[3] = <<"?">> THEN ex.c
       ELSE IF shown = Str(ex.a) THEN ex.b ELSE ex.a

\* C18: for every OneXTwoExercise the stored answer is the quantity its
\* phrasing blanks (c for the two "= ?" forms, the operand not shown for
\* the other four): the display string with the stored answer for '?' is a
\* true multiplication, and check returns Correct exactly for that value.
C18_AnswerIsBlank ==
    xex # None /\ X.TYPE = "Int1X2" =>
        /\ X.c = X.a * X.b
        /\ X.answer = BlankedQuantity(X)
        /\ TrueEquation(X.ex_str, Str(X.answer))
        /\ xcheck # None =>
             (xcheck[1][2][1] = Correct <=> ParseInt(xcheck[1][1]) = Some(BlankedQuantity(X)))

\* the 2-digit operand is blanked and was typed in
C18_Witness ==
    /\ xex # None /\ X.TYPE = "Int1X2" /\ xcheck # None
    /\ X.answer = X.b /\ X.a # X.b /\ X.ex_str[Len(X.ex_str) - 4] = "?"
    /\ xcheck[1][2][1] = Correct

\* the constructor was called without a representation (or with "")
Fresh == xreq[1][2] = None \/ xreq[1][2] = Some(<<>>)

\* C19: a freshly generated OneXTwoExercise has b in [10, 29], not divisible
\* by 10 and not 11, a in [2, 9] when b < 20 and a in {2, 3} when b >= 20, so
\* c = a * b is at most 171, and at most 87 when b >= 20.
C19_FreshOperands ==
    xex # None /\ X.TYPE = "Int1X2" /\ Fresh =>
        /\ X.b \in 10..29 /\ X.b % 10 # 0 /\ X.b # 11
        /\ X.b < 20 => X.a \in 2..9
        /\ X.b >= 20 => X.a \in {2, 3}
        /\ X.c = X.a * X.b
        /\ X.c <= 171
        /\ X.b >= 20 => X.c <= 87

\* the largest products of both cases are drawn
C19_Witness ==
    /\ xex # None /\ X.TYPE = "Int1X2" /\ Fresh
    /\ \/ X.b = 29 /\ X.a = 3 /\ X.c = 87
       \/ X.b = 19 /\ X.a = 9 /\ X.c = 171

\* C20: in a count-mode drill with target N, driving_remaining +
\* session.correct = N in every state: only a Correct verdict consumes the
\* budget, an Error or Invalid submission leaves it alone, and the
\* submission that brings the budget to 0 is the Correct one that makes
\* session.correct = N and calls done(); session.count exceeds
\* session.correct by the Error attempts.
C20_CountBudget ==
    /\ [](eui # None /\ E.driving_mode = "count" =>
            /\ E.driving_remaining + S.correct = E.driving_count
            /\ S.count = S.correct + S.incorrect)
    /\ [][SameSession /\ E.driving_mode = "count" =>
            /\ last' \in {Some(Error), Some(Invalid)} =>
                 E'.driving_remaining = E.driving_remaining
            /\ last' = Some(Correct) => E'.driving_remaining = E.driving_remaining - 1
            /\ E'.driving_remaining # E.driving_remaining => last' = Some(Correct)
            /\ E.driving_remaining > 0 /\ E'.driving_remaining <= 0 =>
                 /\ S'.correct = E.driving_count
                 /\ store_calls' = store_calls + 1
                 /\ stored' = Some(S')
            /\ last' # None /\ store_calls' = store_calls + 1 =>
                 S'.correct >= E.driving_count]_vars

\* a count-mode drill that ended by count after an Error attempt: the target
\* is reached by correct while count is above it
C20_Witness ==
    /\ eui # None /\ E.driving_mode = "count" /\ store_calls = 1
    /\ last = Some(Correct)
    /\ E.driving_remaining = 0 /\ S.correct = E.driving_count
    /\ S.count > E.driving_count /\ S.incorrect = 1

\* the k-th ExerciseUI is a mounted time-mode drill on the screen
TimedDrill(k) ==
    /\ n_sessions = k /\ eui # None /\ ui = "ExerciseUI"
    /\ E.mounted /\ E.driving_mode = "time"

\* the time of the k-th ExerciseUI ran out and done() was called
TimedOut(k) ==
    /\ n_sessions = k /\ eui # None
    /\ E.driving_remaining <= 0 /\ store_calls >= 1 /\ stored # None

\* MainApp took the k-th ExerciseUI off the screen (self.ui.remove() in
\* on_exercise_ui_completed or on_start_ui_start), which stops its timer
Removed(k) == n_sessions # k \/ ui # "ExerciseUI"

\* C21: in a time-mode drill driving_remaining decreases by exactly 1 per
\* timer tick and by nothing else (no answer submission changes it); the tick
\* that brings it to 0 or below calls done(), which stores the results; and
\* with the timer ticking, a drill on the screen eventually reaches
\* driving_remaining <= 0 with done() called, whatever the user submits in
\* between, unless MainApp removes it (and its timer) first.
C21_TimerEndsDrill ==
    /\ [][SameSession /\ E.driving_mode = "time" =>
            /\ E'.driving_remaining =
                 IF ticks' = ticks + 1 THEN E.driving_remaining - 1 ELSE E.driving_remaining
            /\ last' # None => E'.driving_remaining = E.driving_remaining
            /\ ticks' = ticks + 1 /\ E'.driving_remaining <= 0 =>
                 /\ store_calls' = store_calls + 1
                 /\ stored' = Some(S')
                 /\ fs' = store_results(S', fs)]_vars
    /\ \A k \in 1..MaxSessions : TimedDrill(k) ~> (TimedOut(k) \/ Removed(k))

\* a time-mode drill that the timer ended after two submissions were counted
C21_Witness ==
    /\ eui # None /\ E.driving_mode = "time" /\ ui = "ExerciseUI"
    /\ ticks = E.driving_count /\ E.driving_remaining = 0
    /\ S.count = 2 /\ S.incorrect = 1
    /\ store_calls = 1 /\ stored = Some(S) /\ fs.sessions # None

\* C22: whatever is selected on the start screen, the ExerciseUI is created
\* with a generator, so new_exercise on mount obtains an exercise from
\* gen.get_an_exercise() and the handler does not fail.
C22_UsableGenerator ==
    /\ eui # None => E.gen # None
    /\ ui # "crashed"

====
